---- MODULE Spec2Model ----
(***************************************************************************)
(* A model of src/src/main.rs: the pullrequest command-line tool.          *)
(*                                                                         *)
(* main() checks the API key and the working tree, then runs six stages    *)
(* one after the other (remote check, diff, commit subjects, linked issue, *)
(* description generation, pull request creation), each behind a progress  *)
(* bar.  External commands are inputs: whether the child could be spawned, *)
(* whether it exited with status 0, and the bytes of its standard output.  *)
(* Text is a sequence of one-character tokens; "LF" and "CR" are the line  *)
(* feed and the carriage return, "0xFF" is a byte that is not valid UTF-8  *)
(* and "U+FFFD" the replacement character.  The fixed pieces of the prompt *)
(* are one token each.                                                     *)
(***************************************************************************)
EXTENDS Integers, Sequences, FiniteSets, TLC

VARIABLES
  pc,               \* where main() is: a stage, or "Done" / "Failed" / "Replaced"
  exit,             \* the process's exit status, Running while there is none
  failed_at,        \* the stage at which main() stopped, "none" otherwise
  res,              \* per stage: how the stage function ended
  failed_ops,       \* the stages whose external operation failed
  pb,               \* per progress bar: "none", "spinning", "Done", "Failed"
  calls,            \* the external calls issued so far, in order
  key,              \* ANTHROPIC_KEY as read: "unread", "present", "absent"
  status_stdout,    \* stdout of git status --porcelain
  remote,           \* what git ls-remote --exit-code said: "unknown", "yes", "no"
  branch,           \* get_current_branch's value
  push,             \* the git push child: "none", "running", "exit0", "exitN"
  log_stdout,       \* stdout of git log
  diff,             \* main's diff
  commit_messages,  \* main's commit_messages
  issue,            \* main's issue
  completion,       \* the completion endpoint's reply text
  pr_description,   \* main's pr_description
  gh                \* the gh process after exec: "none", "running", "exit0", "exitN"

vars == <<pc, exit, failed_at, res, failed_ops, pb, calls, key, status_stdout,
          remote, branch, push, log_stdout, diff, commit_messages, issue,
          completion, pr_description, gh>>

----------------------------------------------------------------------------
(* Bounds of the model. *)

MaxDiffLen == 1
MaxLogLen == 2
MaxCompletionLen == 1
MaxLinesLen == 4

(* Exit statuses. *)
Running == 0 - 1
ExitOk == 0
ExitErr == 1
ExitPanic == 101

----------------------------------------------------------------------------
(* Text. *)

RECURSIVE SeqsUpTo(_, _)
SeqsUpTo(S, n) ==
  IF n = 0 THEN {<<>>}
  ELSE LET shorter == SeqsUpTo(S, n - 1)
       IN shorter \cup {Append(s, c) : s \in shorter, c \in S}

Last(s) == s[Len(s)]
Front(s) == SubSeq(s, 1, Len(s) - 1)

\* s occurs in t as a contiguous run
Contains(t, s) ==
  \E i \in 0..(Len(t) - Len(s)) : SubSeq(t, i + 1, i + Len(s)) = s

IsWhitespace(c) == c \in {"LF", "CR", " "}

RECURSIVE trim_start(_)
trim_start(s) ==
  IF s # <<>> /\ IsWhitespace(Head(s)) THEN trim_start(Tail(s)) ELSE s

RECURSIVE trim_end(_)
trim_end(s) ==
  IF s # <<>> /\ IsWhitespace(Last(s)) THEN trim_end(Front(s)) ELSE s

trim(s) == trim_end(trim_start(s))

valid_utf8(s) == \A i \in 1..Len(s) : s[i] # "0xFF"

from_utf8_lossy(s) ==
  [i \in 1..Len(s) |-> IF s[i] = "0xFF" THEN "U+FFFD" ELSE s[i]]

\* str::split_inclusive('\n'): every piece but the last ends with the line feed
RECURSIVE split_inclusive(_)
split_inclusive(s) ==
  IF s = <<>> THEN <<>>
  ELSE IF \E i \in 1..Len(s) : s[i] = "LF"
       THEN LET i == CHOOSE j \in 1..Len(s) :
                       s[j] = "LF" /\ \A k \in 1..(j - 1) : s[k] # "LF"
            IN <<SubSeq(s, 1, i)>> \o split_inclusive(SubSeq(s, i + 1, Len(s)))
       ELSE <<s>>

\* the closure str::lines() maps over the pieces
strip_line_ending(l) ==
  IF l # <<>> /\ Last(l) = "LF"
  THEN LET l1 == Front(l)
       IN IF l1 # <<>> /\ Last(l1) = "CR" THEN Front(l1) ELSE l1
  ELSE l

\* lines() as a split on the line feed that keeps the empty piece after a final
\* line feed
lines_keeps_trailing_empty(s) ==
  LET pieces == split_inclusive(s)
      stripped == [i \in 1..Len(pieces) |-> strip_line_ending(pieces[i])]
  IN IF s # <<>> /\ Last(s) = "LF" THEN Append(stripped, <<>>) ELSE stripped

lines(s) ==
  LET pieces == split_inclusive(s)
  IN [i \in 1..Len(pieces) |-> strip_line_ending(pieces[i])]

RECURSIVE join(_, _)
join(ss, sep) ==
  IF ss = <<>> THEN <<>>
  ELSE IF Len(ss) = 1 THEN ss[1]
  ELSE ss[1] \o sep \o join(Tail(ss), sep)

----------------------------------------------------------------------------
(* External commands. *)

CmdResult(outs) ==
  {[spawned |-> FALSE, success |-> FALSE, stdout |-> <<>>]}
  \cup {[spawned |-> TRUE, success |-> s, stdout |-> o] : s \in BOOLEAN, o \in outs}

StatusOuts == {<<>>, <<"M">>}
BranchOuts == {<<"f", "LF">>, <<"0xFF", "LF">>}
DiffOuts == SeqsUpTo({"a", "0xFF"}, MaxDiffLen)
LogOuts == SeqsUpTo({"a", "LF", "CR", "0xFF"}, MaxLogLen)
Completions == SeqsUpTo({"a", "LF"}, MaxCompletionLen)

Call(cmd, arg) == [cmd |-> cmd, arg |-> arg]

\* the places in calls of the calls of a program, and of a git subcommand
CallsOf(cmd) == {i \in 1..Len(calls) : calls[i].cmd = cmd}
GitCalls(sub) == {i \in CallsOf("git") : calls[i].arg[1] = sub}

----------------------------------------------------------------------------
(* The stage functions, as functions of what their external commands did.  *)
(* A result is a tag ("ok", "err", "panic", "exit") and, for "ok", a value. *)

Ok(v) == [tag |-> "ok", val |-> v]
Err == [tag |-> "err", val |-> <<>>]

\* check_uncommitted_changes without its exit on a dirty tree
check_uncommitted_changes_ignores_output(r) ==
  IF ~r.spawned THEN "err" ELSE "ok"

\* lines 11-26: the exit status of git status is not looked at
check_uncommitted_changes(r) ==
  IF ~r.spawned THEN "err"
  ELSE IF r.stdout # <<>> THEN "exit"
  ELSE "ok"

\* lines 59-69
get_current_branch(r) ==
  IF ~r.spawned THEN Err
  ELSE IF r.success
       THEN IF valid_utf8(r.stdout) THEN Ok(trim(r.stdout)) ELSE Err
       ELSE Err

\* has_remote taking every ls-remote that ran for a branch that has a remote
has_remote_ignores_status(r) ==
  IF ~r.spawned THEN [tag |-> "err", val |-> <<>>] ELSE [tag |-> "ok", val |-> TRUE]

\* lines 71-77: any exit status but 0 is the answer "no remote"
has_remote(r) ==
  IF ~r.spawned THEN Err ELSE Ok(r.success)

\* lines 28-44: spawn() starts the child and does not wait for it; the check
\* of its status is commented out
push_to_remote(spawned) ==
  IF spawned THEN "ok" ELSE "panic"

\* lines 46-57: the result, the branch it got, and whether it went as far as
\* ls-remote and push
check_for_remote(rb, rl, sp) ==
  LET b == get_current_branch(rb)
      h == has_remote(rl)
  IN IF b.tag = "err"
     THEN [tag |-> "err", branch |-> <<>>, asked |-> FALSE, pushed |-> FALSE]
     ELSE IF h.tag = "err"
     THEN [tag |-> "err", branch |-> b.val, asked |-> TRUE, pushed |-> FALSE]
     ELSE IF h.val
     THEN [tag |-> "ok", branch |-> b.val, asked |-> TRUE, pushed |-> FALSE]
     ELSE [tag |-> push_to_remote(sp), branch |-> b.val, asked |-> TRUE,
           pushed |-> TRUE]

\* lines 158-164: the exit status of git diff is not looked at
get_git_diff(r) ==
  IF ~r.spawned THEN Err ELSE Ok(from_utf8_lossy(r.stdout))

\* lines 166-177: the exit status of git log is not looked at
get_commit_messages(r) ==
  IF ~r.spawned THEN Err ELSE Ok(lines(from_utf8_lossy(r.stdout)))

\* lines 179-184: an Option is a sequence of length 0 (None) or 1 (Some)
get_linked_issue == Ok(<<>>)

\* {:?} of an Option<String>
debug_option(o) ==
  IF o = <<>> THEN <<"None">> ELSE <<"Some(", "QUOTE">> \o o[1] \o <<"QUOTE", ")">>

\* lines 194-203
prompt(d, msgs, iss) ==
  <<"Generate a pull request description based on the following information:", "LF">>
  \o <<"Diff: ">> \o d \o <<"LF">>
  \o <<"Commit messages: ">> \o join(msgs, <<"LF">>) \o <<"LF">>
  \o <<"Linked issue: ">> \o debug_option(iss) \o <<"LF">>
  \o <<"Please summarize the changes, their purpose, and any potential impact.">>

\* line 211
request_prompt(p) == <<"HUMAN_PROMPT">> \o p \o <<"LF", "AI_PROMPT">>

\* generate_pr_description trimming the completion before returning it
generate_pr_description_trimmed(reply) ==
  IF reply.tag = "ok" THEN [tag |-> "ok", val |-> trim(reply.val)]
  ELSE [tag |-> "err", val |-> <<>>]

\* lines 216-217: reply is the endpoint's answer
generate_pr_description(reply) ==
  IF reply.tag = "ok" THEN Ok(reply.val) ELSE Err

\* lines 221-231: the arguments handed to gh
gh_args(description) ==
  <<"pr", "create", "--title", "Automated Pull Request",
    "--body", description, "--base", "master">>

\* lines 220-235: the result of exec() is dropped; when exec() works the
\* process is gh from then on and the function never returns
create_pull_request(execed) ==
  IF execed THEN "replaced" ELSE "ok"

----------------------------------------------------------------------------
(* The progress wrappers and main's sequence. *)

Wrapped == {"EnsureRemote", "CollectDiff", "CollectCommits", "ResolveIssue",
            "GenerateDescription", "Publish"}
Stages == {"VerifyClean"} \cup Wrapped

\* lines 104-115: a panic of f is a JoinError, returned by `?` before the bar
\* is touched
run_with_progress(tag) ==
  IF tag = "ok" THEN [ret |-> "ok", mark |-> "Done"]
  ELSE IF tag = "err" THEN [ret |-> "err", mark |-> "Failed"]
  ELSE [ret |-> "err", mark |-> "spinning"]

\* lines 91-102
run_with_progress_async(tag) ==
  IF tag = "ok" THEN [ret |-> "ok", mark |-> "Done"]
  ELSE [ret |-> "err", mark |-> "Failed"]

\* main generating the description right after the diff, before the commit
\* subjects and the issue are collected
NextStage_description_before_commits(s) ==
  CASE s = "Start" -> "VerifyClean"
    [] s = "VerifyClean" -> "EnsureRemote"
    [] s = "EnsureRemote" -> "CollectDiff"
    [] s = "CollectDiff" -> "GenerateDescription"
    [] s = "GenerateDescription" -> "CollectCommits"
    [] s = "CollectCommits" -> "ResolveIssue"
    [] s = "ResolveIssue" -> "Publish"
    [] s = "Publish" -> "Clear"
    [] s = "Clear" -> "Done"

\* lines 121-155: what main runs after s
NextStage(s) ==
  CASE s = "Start" -> "VerifyClean"
    [] s = "VerifyClean" -> "EnsureRemote"
    [] s = "EnsureRemote" -> "CollectDiff"
    [] s = "CollectDiff" -> "CollectCommits"
    [] s = "CollectCommits" -> "ResolveIssue"
    [] s = "ResolveIssue" -> "GenerateDescription"
    [] s = "GenerateDescription" -> "Publish"
    [] s = "Publish" -> "Clear"
    [] s = "Clear" -> "Done"

\* main's `.await?` on a wrapper's result w for stage s whose function ended tag
Await(s, tag, w) ==
  /\ res' = [res EXCEPT ![s] = tag]
  /\ pb' = [pb EXCEPT ![s] = w.mark]
  /\ IF w.ret = "ok"
     THEN pc' = NextStage(s) /\ UNCHANGED <<exit, failed_at>>
     ELSE pc' = "Failed" /\ exit' = ExitErr /\ failed_at' = s

OpFailed(s, failed) ==
  failed_ops' = IF failed THEN failed_ops \cup {s} ELSE failed_ops

Init ==
  /\ pc = "Start"
  /\ exit = Running
  /\ failed_at = "none"
  /\ res = [s \in Stages |-> "pending"]
  /\ failed_ops = {}
  /\ pb = [b \in Wrapped |-> "none"]
  /\ calls = <<>>
  /\ key = "unread"
  /\ status_stdout = <<>>
  /\ remote = "unknown"
  /\ branch = <<>>
  /\ push = "none"
  /\ log_stdout = <<>>
  /\ diff = <<>>
  /\ commit_messages = <<>>
  /\ issue = <<>>
  /\ completion = <<>>
  /\ pr_description = <<>>
  /\ gh = "none"

\* lines 119-121: expect() panics when ANTHROPIC_KEY is not set
Start ==
  /\ pc = "Start"
  /\ \E present \in BOOLEAN :
       /\ key' = IF present THEN "present" ELSE "absent"
       /\ IF present
          THEN pc' = NextStage("Start") /\ UNCHANGED <<exit, failed_at>>
          ELSE pc' = "Failed" /\ exit' = ExitPanic /\ failed_at' = "Start"
  /\ UNCHANGED <<res, failed_ops, pb, calls, status_stdout, remote, branch, push,
                 log_stdout, diff, commit_messages, issue, completion, pr_description, gh>>

\* lines 123-135: the working tree check, then the six bars are created
VerifyClean ==
  /\ pc = "VerifyClean"
  /\ \E r \in CmdResult(StatusOuts) :
       LET tag == check_uncommitted_changes(r)
       IN /\ calls' = Append(calls, Call("git", <<"status", "--porcelain">>))
          /\ status_stdout' = r.stdout
          /\ res' = [res EXCEPT !["VerifyClean"] = tag]
          /\ OpFailed("VerifyClean", ~r.spawned \/ ~r.success)
          /\ IF tag = "ok"
             THEN /\ pc' = NextStage("VerifyClean")
                  /\ pb' = [b \in Wrapped |-> "spinning"]
                  /\ UNCHANGED <<exit, failed_at>>
             ELSE /\ pc' = "Failed"
                  /\ exit' = ExitErr
                  /\ failed_at' = "VerifyClean"
                  /\ pb' = pb
  /\ UNCHANGED <<key, remote, branch, push, log_stdout, diff, commit_messages,
                 issue, completion, pr_description, gh>>

\* line 137
EnsureRemote ==
  /\ pc = "EnsureRemote"
  /\ \E rb \in CmdResult(BranchOuts), rl \in CmdResult({<<>>}), sp \in BOOLEAN :
       LET c == check_for_remote(rb, rl, sp)
       IN /\ calls' = calls
                 \o <<Call("git", <<"rev-parse", "--abbrev-ref", "HEAD">>)>>
                 \o (IF c.asked
                     THEN <<Call("git", <<"ls-remote", "--exit-code", "--heads",
                                          "origin", c.branch>>)>>
                     ELSE <<>>)
                 \o (IF c.pushed
                     THEN <<Call("git", <<"push", "origin", c.branch>>)>>
                     ELSE <<>>)
          /\ branch' = c.branch
          /\ remote' = IF c.asked /\ rl.spawned
                        THEN (IF rl.success THEN "yes" ELSE "no")
                        ELSE "unknown"
          /\ push' = IF c.pushed /\ c.tag = "ok" THEN "running" ELSE push
          /\ OpFailed("EnsureRemote",
                      \/ ~rb.spawned \/ ~rb.success
                      \/ (c.asked /\ ~rl.spawned)
                      \/ (c.pushed /\ ~sp))
          /\ Await("EnsureRemote", c.tag, run_with_progress(c.tag))
  /\ UNCHANGED <<key, status_stdout, log_stdout, diff, commit_messages, issue,
                 completion, pr_description, gh>>

\* the git push child ends, whatever main is doing
push_exits ==
  /\ push = "running"
  /\ \E ok \in BOOLEAN : push' = IF ok THEN "exit0" ELSE "exitN"
  /\ UNCHANGED <<pc, exit, failed_at, res, failed_ops, pb, calls, key,
                 status_stdout, remote, branch, log_stdout, diff, commit_messages,
                 issue, completion, pr_description, gh>>

\* line 139
CollectDiff ==
  /\ pc = "CollectDiff"
  /\ \E r \in CmdResult(DiffOuts) :
       LET d == get_git_diff(r)
       IN /\ calls' = Append(calls, Call("git", <<"diff", "origin/master">>))
          /\ diff' = d.val
          /\ OpFailed("CollectDiff", ~r.spawned \/ ~r.success)
          /\ Await("CollectDiff", d.tag, run_with_progress(d.tag))
  /\ UNCHANGED <<key, status_stdout, remote, branch, push, log_stdout,
                 commit_messages, issue, completion, pr_description, gh>>

\* line 140, git log writing one of outs
CollectCommitsFrom(outs) ==
  /\ pc = "CollectCommits"
  /\ \E r \in CmdResult(outs) :
       LET m == get_commit_messages(r)
       IN /\ calls' = Append(calls, Call("git", <<"log", "origin/master..HEAD",
                                                  "--pretty=format:%s">>))
          /\ log_stdout' = r.stdout
          /\ commit_messages' = m.val
          /\ OpFailed("CollectCommits", ~r.spawned \/ ~r.success)
          /\ Await("CollectCommits", m.tag, run_with_progress(m.tag))
  /\ UNCHANGED <<key, status_stdout, remote, branch, push, diff, issue,
                 completion, pr_description, gh>>

CollectCommits == CollectCommitsFrom(LogOuts)

\* line 141
ResolveIssue ==
  /\ pc = "ResolveIssue"
  /\ LET i == get_linked_issue
     IN /\ issue' = i.val
        /\ Await("ResolveIssue", i.tag, run_with_progress(i.tag))
  /\ UNCHANGED <<failed_ops, calls, key, status_stdout, remote, branch, push,
                 log_stdout, diff, commit_messages, completion, pr_description, gh>>

\* lines 143-147
GenerateDescription ==
  /\ pc = "GenerateDescription"
  /\ \E reply \in {Err} \cup {Ok(c) : c \in Completions} :
       LET g == generate_pr_description(reply)
       IN /\ calls' = Append(calls,
                 Call("complete",
                      <<request_prompt(prompt(diff, commit_messages, issue))>>))
          /\ completion' = reply.val
          /\ pr_description' = g.val
          /\ OpFailed("GenerateDescription", reply.tag = "err")
          /\ Await("GenerateDescription", g.tag, run_with_progress_async(g.tag))
  /\ UNCHANGED <<key, status_stdout, remote, branch, push, log_stdout, diff,
                 commit_messages, issue, gh>>

\* line 149
Publish ==
  /\ pc = "Publish"
  /\ \E execed \in BOOLEAN :
       LET tag == create_pull_request(execed)
       IN /\ calls' = Append(calls, Call("gh", gh_args(pr_description)))
          /\ OpFailed("Publish", ~execed)
          /\ IF tag = "replaced"
             THEN /\ pc' = "Replaced"
                  /\ gh' = "running"
                  /\ res' = [res EXCEPT !["Publish"] = tag]
                  /\ UNCHANGED <<pb, exit, failed_at>>
             ELSE /\ gh' = gh
                  /\ Await("Publish", tag, run_with_progress(tag))
  /\ UNCHANGED <<key, status_stdout, remote, branch, push, log_stdout, diff,
                 commit_messages, issue, completion, pr_description>>

\* gh, which the process now is, ends: its status is the process's status
gh_exits ==
  /\ gh = "running"
  /\ \E ok \in BOOLEAN :
       /\ gh' = IF ok THEN "exit0" ELSE "exitN"
       /\ exit' = IF ok THEN ExitOk ELSE ExitErr
       /\ OpFailed("Publish", ~ok)
  /\ UNCHANGED <<pc, failed_at, res, pb, calls, key, status_stdout, remote,
                 branch, push, log_stdout, diff, commit_messages, issue,
                 completion, pr_description>>

\* lines 151-155: clear() can fail; otherwise main returns Ok(())
Clear ==
  /\ pc = "Clear"
  /\ \E cleared \in BOOLEAN :
       IF cleared
       THEN pc' = NextStage("Clear") /\ exit' = ExitOk /\ failed_at' = failed_at
       ELSE pc' = "Failed" /\ exit' = ExitErr /\ failed_at' = "Clear"
  /\ UNCHANGED <<res, failed_ops, pb, calls, key, status_stdout, remote, branch,
                 push, log_stdout, diff, commit_messages, issue, completion, pr_description, gh>>

Next ==
  \/ Start
  \/ VerifyClean
  \/ EnsureRemote
  \/ push_exits
  \/ CollectDiff
  \/ CollectCommits
  \/ ResolveIssue
  \/ GenerateDescription
  \/ Publish
  \/ gh_exits
  \/ Clear

Spec == Init /\ [][Next]_vars

----------------------------------------------------------------------------
(* get_commit_messages on longer outputs: main at line 140 of a run with   *)
(* the key set, a clean tree, a branch that has a remote and an empty      *)
(* diff, and git log writing any text of up to MaxLinesLen characters.     *)

LinesInit ==
  /\ pc = "CollectCommits"
  /\ exit = Running
  /\ failed_at = "none"
  /\ res = [s \in Stages |->
              IF s \in {"VerifyClean", "EnsureRemote", "CollectDiff"}
              THEN "ok" ELSE "pending"]
  /\ failed_ops = {}
  /\ pb = [b \in Wrapped |->
             IF b \in {"EnsureRemote", "CollectDiff"} THEN "Done" ELSE "spinning"]
  /\ calls = <<Call("git", <<"status", "--porcelain">>),
               Call("git", <<"rev-parse", "--abbrev-ref", "HEAD">>),
               Call("git", <<"ls-remote", "--exit-code", "--heads", "origin", <<"f">>>>),
               Call("git", <<"diff", "origin/master">>)>>
  /\ key = "present"
  /\ status_stdout = <<>>
  /\ remote = "yes"
  /\ branch = <<"f">>
  /\ push = "none"
  /\ log_stdout = <<>>
  /\ diff = <<>>
  /\ commit_messages = <<>>
  /\ issue = <<>>
  /\ completion = <<>>
  /\ pr_description = <<>>
  /\ gh = "none"

LinesNext == CollectCommitsFrom(SeqsUpTo({"a", "LF", "CR", "0xFF"}, MaxLinesLen))

LinesSpec == LinesInit /\ [][LinesNext]_vars

----------------------------------------------------------------------------
(* The claims. *)

SideEffectCalls ==
  GitCalls("push") \cup GitCalls("diff") \cup GitCalls("log")
  \cup CallsOf("complete") \cup CallsOf("gh")

\* C1: when the API key is absent or git status --porcelain printed something,
\* the process has ended at the pre-flight step with a status other than 0
\* (1 for the dirty tree), and no push, diff, log, completion or publish call
\* was issued.
C1_PreflightAbortsBeforeSideEffects ==
  (key = "absent" \/ status_stdout # <<>>) =>
     /\ pc = "Failed"
     /\ failed_at \in {"Start", "VerifyClean"}
     /\ exit \notin {Running, ExitOk}
     /\ (status_stdout # <<>> => exit = ExitErr /\ failed_at = "VerifyClean")
     /\ SideEffectCalls = {}
     /\ push = "none"
     /\ gh = "none"

C1_Witness ==
  /\ status_stdout # <<>>
  /\ pc = "Failed"
  /\ exit = ExitErr
  /\ calls = <<Call("git", <<"status", "--porcelain">>)>>

\* C2: once the external operation of a stage has failed (the command could
\* not be run or exited non-zero, or the completion call erred), the process
\* has ended with a status other than 0 and main runs no later stage.
C2_FailedStageAbortsRun ==
  failed_ops # {} =>
     /\ pc \in {"Failed", "Replaced"}
     /\ exit \notin {Running, ExitOk}
     /\ (pc = "Failed" => failed_at \in failed_ops)

\* C3: a process that ended with status 0 issued the publish call exactly once
\* and the request was handed to gh.
C3_SuccessMeansOneSubmission ==
  exit = ExitOk =>
     /\ Cardinality(CallsOf("gh")) = 1
     /\ gh = "exit0"

\* C4: main moves through Start, VerifyClean, EnsureRemote, CollectDiff,
\* CollectCommits, ResolveIssue, GenerateDescription, Publish and its end in
\* that order: every step of main goes to the next stage or to Failed (or, from
\* Publish, into gh), a stage is entered only when every stage before it has
\* returned Ok, and none is entered twice; the diff and the commit subjects are
\* there before the description is generated.
StageOrder ==
  <<"Start", "VerifyClean", "EnsureRemote", "CollectDiff", "CollectCommits",
    "ResolveIssue", "GenerateDescription", "Publish", "Clear", "Done">>

Rank(s) == CHOOSE i \in 1..Len(StageOrder) : StageOrder[i] = s

C4_StagesInOrder ==
  [][pc' # pc =>
       /\ pc \in {StageOrder[i] : i \in 1..(Len(StageOrder) - 1)}
       /\ \/ pc' = "Failed"
          \/ pc' = "Replaced" /\ pc = "Publish"
          \/ /\ pc' = StageOrder[Rank(pc) + 1]
             /\ \A s \in Stages : Rank(s) < Rank(pc') => res'[s] = "ok"
             /\ \A s \in Stages : Rank(s) >= Rank(pc') => res'[s] = "pending"
       /\ (CallsOf("complete") = {} /\ pc = "GenerateDescription" =>
             /\ res["CollectDiff"] = "ok"
             /\ res["CollectCommits"] = "ok"
             /\ GitCalls("diff") # {}
             /\ GitCalls("log") # {})]_vars

C4_Witness ==
  /\ pc = "Replaced"
  /\ gh = "exit0"
  /\ \A s \in Stages \ {"Publish"} : res[s] = "ok"

\* C5: check_for_remote has not returned Ok in a run in which the push it
\* issued failed.
C5_PushFailureSurfaced ==
  ~(res["EnsureRemote"] = "ok" /\ push = "exitN")

LineFeeds(s) == {i \in 1..Len(s) : s[i] = "LF"}

\* the place of the k-th line feed of s; 0 before the text, Len(s) + 1 after it
LineFeedAt(s, k) ==
  IF k = 0 THEN 0
  ELSE IF k > Cardinality(LineFeeds(s)) THEN Len(s) + 1
  ELSE CHOOSE i \in LineFeeds(s) : Cardinality({j \in LineFeeds(s) : j <= i}) = k

\* the k-th of the pieces the line feeds cut s into
Piece(s, k) == SubSeq(s, LineFeedAt(s, k - 1) + 1, LineFeedAt(s, k) - 1)

\* the k-th line: the piece, less the CR of a CR LF ending
LineOf(s, k) ==
  LET q == Piece(s, k)
  IN IF k <= Cardinality(LineFeeds(s)) /\ q # <<>> /\ Last(q) = "CR"
     THEN Front(q) ELSE q

NumPieces(s) == IF s = <<>> THEN 0 ELSE Cardinality(LineFeeds(s)) + 1

C7_LinesSplitInOrder ==
  res["CollectCommits"] = "ok" =>
     LET text == from_utf8_lossy(log_stdout)
         n == IF text # <<>> /\ Last(text) = "LF"
              THEN NumPieces(text) - 1
              ELSE NumPieces(text)
     IN /\ Len(commit_messages) = n
        /\ \A k \in 1..n : commit_messages[k] = LineOf(text, k)

C7_Witness ==
  /\ res["CollectCommits"] = "ok"
  /\ Len(log_stdout) = 4
  /\ Last(log_stdout) = "LF"
  /\ commit_messages = <<<<"a">>, <<"a">>>>

\* C8: the prompt of the completion call holds the diff, the commit subjects
\* (joined by line feeds) and the linked issue as collected; the publish call
\* has the endpoint's completion text as its body, the title
\* "Automated Pull Request" and the base master; one completion call and one
\* publish call at most, the completion call first.
C8_DataFlowsUnchanged ==
  /\ Cardinality(CallsOf("complete")) <= 1
  /\ Cardinality(CallsOf("gh")) <= 1
  /\ \A i \in CallsOf("complete") :
       LET p == calls[i].arg[1]
       IN /\ Contains(p, <<"Diff: ">> \o diff \o <<"LF">>)
          /\ Contains(p, <<"Commit messages: ">> \o join(commit_messages, <<"LF">>)
                         \o <<"LF">>)
          /\ \A k \in 1..Len(commit_messages) : Contains(p, commit_messages[k])
          /\ issue = <<>>
          /\ Contains(p, <<"Linked issue: ", "None", "LF">>)
  /\ \A j \in CallsOf("gh") :
       /\ calls[j].arg = <<"pr", "create", "--title", "Automated Pull Request",
                           "--body", completion, "--base", "master">>
       /\ \E i \in CallsOf("complete") : i < j

C8_Witness ==
  /\ CallsOf("gh") # {}
  /\ diff # <<>>
  /\ Len(commit_messages) = 2
  /\ completion = <<"LF">>

\* C9: when diff collection, description generation or the publish call has
\* started, the branch has a remote counterpart: a git push that was started
\* has ended with status 0.
C9_PushEndedBeforeCollection ==
  (GitCalls("diff") \cup CallsOf("complete") \cup CallsOf("gh")) # {} =>
     \/ remote = "yes"
     \/ GitCalls("push") # {} /\ push = "exit0"

\* C10: the progress bars only observe: the bar of a stage that has ended is
\* marked Done when the stage function returned Ok and Failed otherwise, and
\* main ends with the status it would end with if it called the stage
\* functions directly, without bars and without a worker thread.
DirectExit ==
  IF key = "absent" \/ \E s \in Stages : res[s] = "panic" THEN ExitPanic
  ELSE IF \E s \in Stages : res[s] \in {"err", "exit"} THEN ExitErr
  ELSE ExitOk

C10_ProgressOnlyObserves ==
  /\ \A s \in Wrapped :
       res[s] \in {"ok", "err", "panic"} =>
          pb[s] = IF res[s] = "ok" THEN "Done" ELSE "Failed"
  /\ (pc \in {"Done", "Failed"} => exit = DirectExit)

====
